---- MODULE Spec2Model ----
(***************************************************************************)
(* The drug supply-chain simulation of src/simulation.py as a state        *)
(* machine.  One step of the machine is one env.step() of the event loop   *)
(* that run_simulation drives: the earliest event (time, priority, eid) is *)
(* taken from the queue, its callbacks run (a container's re-trigger of    *)
(* the opposite queue, then the resumption of the process that yielded the *)
(* event), and the resumed generator runs up to its next yield.            *)
(*                                                                         *)
(* Time is counted in ticks, Day ticks to one simulated day, so that the   *)
(* enrollment process can draw delays that are fractions of a day.         *)
(***************************************************************************)
EXTENDS Integers, Sequences, FiniteSets, TLC

VARIABLES
    cfg,            \* config: the "trial_a" section of data.yml
    now,            \* env.now, in ticks
    queue,          \* env._queue: the scheduled events
    eid,            \* env._eid: the next event id
    procs,          \* the generators (simpy processes) created so far
    level,          \* level of each facility's simpy.Container
    get_queue,      \* pending ContainerGet requests of each container
    put_queue,      \* pending ContainerPut requests of each container
    on_order,       \* on_order of central storage, regional storage, trial site
    inventory_log,  \* inventory_log of each facility
    patients,       \* trial_site.patients
    arrivals,       \* number of interarrival delays drawn by patient_enrollment
    status,         \* "running", "finished" (until reached) or "stockout"
    withdrawn,      \* quantity taken out of each container so far (history only)
    dosage_schedule,\* the DosageSchedule that run_simulation builds
    returned,       \* what the calls made outside a run returned
    last            \* what the most recent step did (observations only)

vars == <<cfg, now, queue, eid, procs, level, get_queue, put_queue, on_order,
          inventory_log, patients, arrivals, status, withdrawn, dosage_schedule,
          returned, last>>

----------------------------------------------------------------------------
\* Bounds of the model.

\* log2 of the number of ticks in a day
TimeBits == 1
\* largest simulation_time, in days
MaxSimTime == 4
\* how many interarrival delays patient_enrollment draws before the model
\* stops following it
MaxArrivals == 2
\* largest interarrival delay drawn, in ticks
MaxGap == 2
\* largest dose_amount and dose_interval of a DosageSchedule called on its own
MaxDose == 3
MaxInterval == 3
\* how many calls are made on a DosageSchedule called on its own
MaxCalls == 5
\* largest transit time of a transit_times table looked up on its own, in days
MaxTransit == 2

Day == 2 ^ TimeBits

----------------------------------------------------------------------------
\* Facilities and their wiring (run_simulation).

Facilities == {"manufacturer", "central_storage", "regional_storage", "trial_site"}

\* the facilities built on StorageFacility
Storages == {"central_storage", "regional_storage"}

\* the facilities that carry an on_order attribute
Ordering == {"central_storage", "regional_storage", "trial_site"}

\* destination= of each storage facility
destination(f) ==
    IF f = "central_storage" THEN "regional_storage" ELSE "trial_site"

\* the facilities an InventoryController is bound to
Controlled == {"regional_storage", "trial_site"}

\* supplier= of the controller of facility f
supplier(f) ==
    IF f = "regional_storage" THEN "central_storage" ELSE "regional_storage"

\* forecast_window= of both controllers
forecast_window == 3

\* DosageSchedule.next_dose_time of a fresh schedule, in days
initial_next_dose_time == 1

\* the delay of the controller's "check inventory periodically", in days
poll_interval == 1

----------------------------------------------------------------------------
\* The state as one record, so that the steps of a generator compose.

State ==
    [cfg |-> cfg, now |-> now, queue |-> queue, eid |-> eid, procs |-> procs,
     level |-> level, get_queue |-> get_queue, put_queue |-> put_queue,
     on_order |-> on_order, inventory_log |-> inventory_log,
     patients |-> patients, arrivals |-> arrivals, status |-> status,
     withdrawn |-> withdrawn, last |-> <<>>]

Commit(s) ==
    /\ cfg' = s.cfg
    /\ now' = s.now
    /\ queue' = s.queue
    /\ eid' = s.eid
    /\ procs' = s.procs
    /\ level' = s.level
    /\ get_queue' = s.get_queue
    /\ put_queue' = s.put_queue
    /\ on_order' = s.on_order
    /\ inventory_log' = s.inventory_log
    /\ patients' = s.patients
    /\ arrivals' = s.arrivals
    /\ status' = s.status
    /\ withdrawn' = s.withdrawn
    /\ UNCHANGED <<dosage_schedule, returned>>
    /\ last' = s.last

\* An observation of the running step: what was called, on which facility,
\* by which process, with which quantity, and two values (a, b) whose
\* meaning depends on op.  The first observation of a step is the event
\* that was processed: its kind, container, waiting process, eid, time and
\* whether it succeeded.
Obs(op, f, p, q, a, b) == [op |-> op, fac |-> f, proc |-> p, qty |-> q, a |-> a, b |-> b]

Note(s, o) == [s EXCEPT !.last = Append(@, o)]

----------------------------------------------------------------------------
\* The event queue (simpy.Environment).

\* env.schedule(event, priority, delay): urgent events (process starts, the
\* until event) come before normal ones of the same time, and events of the
\* same time and priority in the order they were scheduled.
schedule(s, kind, urgent, delay, p, c, ok) ==
    [s EXCEPT
        !.queue = @ \cup {[time |-> s.now + delay,
                           prio |-> IF urgent THEN 0 ELSE 1,
                           eid |-> s.eid, kind |-> kind, proc |-> p,
                           cont |-> c, ok |-> ok]},
        !.eid = @ + 1]

\* (mutant of Earlier: the heap is keyed by time and priority only, so that
\* events of one instant and one priority are not ordered)
Earlier_without_eid(e, f) ==
    \/ e.time < f.time
    \/ e.time = f.time /\ e.prio < f.prio

Earlier(e, f) ==
    \/ e.time < f.time
    \/ e.time = f.time /\ e.prio < f.prio
    \/ e.time = f.time /\ e.prio = f.prio /\ e.eid < f.eid

\* heappop(env._queue)
NextEvent(q) == CHOOSE e \in q : \A f \in q \ {e} : Earlier(e, f)

\* env.timeout(delay) yielded by process p, which then waits at pc
timeout(s, p, delay, pc) ==
    LET s1 == schedule(s, "Timeout", FALSE, delay, p, "none", TRUE)
    IN  [s1 EXCEPT !.procs[p].pc = pc]

\* A fresh generator of the given kind.  parent is the process that yields
\* the new process (0 when nobody waits for it).
NewProc(kind, f, peer, q, parent) ==
    [kind |-> kind, pc |-> "start", fac |-> f, peer |-> peer, quantity |-> q,
     parent |-> parent, next_dose_time |-> initial_next_dose_time]

\* env.process(generator): the process is created and its Initialize event
\* is scheduled urgently at the current time.
process(s, kind, f, peer, q, parent) ==
    LET p  == Len(s.procs) + 1
        s1 == [s EXCEPT !.procs = Append(@, NewProc(kind, f, peer, q, parent))]
    IN  schedule(s1, "Initialize", TRUE, 0, p, "none", TRUE)

\* yield env.process(generator) by process p, which then waits at pc
yield_process(s, p, kind, f, peer, q, pc) ==
    LET s1 == process(s, kind, f, peer, q, p)
    IN  [s1 EXCEPT !.procs[p].pc = pc]

\* The generator of p returns: the Process event succeeds and is scheduled;
\* the process that yielded p, if any, is resumed when it is processed.
return(s, p) ==
    LET s1 == schedule(s, "Process", FALSE, 0, s.procs[p].parent, "none", TRUE)
    IN  [s1 EXCEPT !.procs[p].pc = "done"]

\* (mutant of raise: the exception is swallowed and the generator returns)
raise_swallowed(s, p) == return(s, p)

\* The generator of p raises: the Process event fails and is scheduled.
raise(s, p) ==
    LET s1 == schedule(s, "Process", FALSE, 0, s.procs[p].parent, "none", FALSE)
    IN  [s1 EXCEPT !.procs[p].pc = "failed"]

----------------------------------------------------------------------------
\* simpy.Container(env, init=..., capacity=...)

capacity(s, c) == s.cfg.capacity[c]

\* (mutant of _do_put: a put that ignores the capacity)
_do_put_unbounded(s, c, amount) == TRUE

\* Container._do_put: whether the amount fits
_do_put(s, c, amount) == capacity(s, c) - s.level[c] >= amount

\* (mutant of _do_get: a get that is granted as soon as anything is there)
_do_get_partial(s, c, amount) == s.level[c] > 0

\* Container._do_get: whether the amount is there
_do_get(s, c, amount) == s.level[c] >= amount

\* BaseResource._trigger_put: the pending puts are served from the front of
\* the queue, and the first that does not fit stops the loop.
RECURSIVE _trigger_put(_, _)
_trigger_put(s, c) ==
    IF s.put_queue[c] = <<>> THEN s
    ELSE LET r == Head(s.put_queue[c])
         IN  IF _do_put(s, c, r.amount)
             THEN LET s1 == [s EXCEPT !.level[c] = @ + r.amount,
                                      !.put_queue[c] = Tail(@)]
                      s2 == schedule(s1, "ContainerPut", FALSE, 0, r.proc, c, TRUE)
                      s3 == Note(s2, Obs("put_granted", c, r.proc, r.amount,
                                         s.level[c], s1.level[c]))
                  IN  _trigger_put(s3, c)
             ELSE s

\* (mutant of _trigger_get: a request that cannot be met is passed over and
\* the ones behind it are tried, as a best-fit queue would)
RECURSIVE _trigger_get_from(_, _, _)
_trigger_get_from(s, c, idx) ==
    IF idx > Len(s.get_queue[c]) THEN s
    ELSE LET r == s.get_queue[c][idx]
         IN  IF _do_get(s, c, r.amount)
             THEN LET s1 == [s EXCEPT !.level[c] = @ - r.amount,
                                      !.withdrawn[c] = @ + r.amount,
                                      !.get_queue[c] = SubSeq(@, 1, idx - 1)
                                                       \o SubSeq(@, idx + 1, Len(@))]
                      s2 == schedule(s1, "ContainerGet", FALSE, 0, r.proc, c, TRUE)
                      s3 == Note(s2, Obs("get_granted", c, r.proc, r.amount,
                                         s.level[c], s1.level[c]))
                  IN  _trigger_get_from(s3, c, idx)
             ELSE _trigger_get_from(s, c, idx + 1)

_trigger_get_best_fit(s, c) == _trigger_get_from(s, c, 1)

\* BaseResource._trigger_get: the pending gets are served from the front of
\* the queue, and the first that cannot be met stops the loop.
RECURSIVE _trigger_get(_, _)
_trigger_get(s, c) ==
    IF s.get_queue[c] = <<>> THEN s
    ELSE LET r == Head(s.get_queue[c])
         IN  IF _do_get(s, c, r.amount)
             THEN LET s1 == [s EXCEPT !.level[c] = @ - r.amount,
                                      !.withdrawn[c] = @ + r.amount,
                                      !.get_queue[c] = Tail(@)]
                      s2 == schedule(s1, "ContainerGet", FALSE, 0, r.proc, c, TRUE)
                      s3 == Note(s2, Obs("get_granted", c, r.proc, r.amount,
                                         s.level[c], s1.level[c]))
                  IN  _trigger_get(s3, c)
             ELSE s

\* yield container.put(amount) by process p, which then waits at pc
put(s, c, amount, p, pc) ==
    LET s1 == [s EXCEPT !.put_queue[c] = Append(@, [proc |-> p, amount |-> amount]),
                        !.procs[p].pc = pc]
        s2 == Note(s1, Obs("put", c, p, amount, s.level[c], Len(s.put_queue[c])))
    IN  _trigger_put(s2, c)

\* yield container.get(amount) by process p, which then waits at pc
get(s, c, amount, p, pc) ==
    LET s1 == [s EXCEPT !.get_queue[c] = Append(@, [proc |-> p, amount |-> amount]),
                        !.procs[p].pc = pc]
        s2 == Note(s1, Obs("get", c, p, amount, s.level[c], Len(s.get_queue[c])))
    IN  _trigger_get(s2, c)

\* (mutant of log_inventory: the log keeps the latest sample only, the new
\* sample taking the place of the last one)
log_inventory_latest(s, f) ==
    [s EXCEPT !.inventory_log[f] =
        SubSeq(@, 1, Len(@) - 1) \o << <<s.now, s.level[f]>> >>]

\* Facility.log_inventory(env.now)
log_inventory(s, f) ==
    [s EXCEPT !.inventory_log[f] = Append(@, <<s.now, s.level[f]>>)]

----------------------------------------------------------------------------
\* Configuration look-ups.

\* transit_times[key]: the value, or the KeyError that a table without the
\* key raises
item(table, key) ==
    IF key \in DOMAIN table THEN [raised |-> "none", value |-> table[key]]
    ELSE [raised |-> "KeyError", value |-> 0]

\* source.name + "_to_" + destination.name
lane(source, dest) == source \o "_to_" \o dest

\* The look-up of transport_drug: default_time = transit_times["default"],
\* then transit_times.get(lane, default_time)
transport_time(table, source, dest) ==
    LET default_time == item(table, "default")
    IN  IF default_time.raised # "none" THEN default_time
        ELSE IF lane(source, dest) \in DOMAIN table
            THEN [raised |-> "none", value |-> table[lane(source, dest)]]
        ELSE default_time

\* transit_times[lane], in ticks
transit(s, key) == item(s.cfg.transit_times, key).value * Day

\* the delay of transport_drug, in ticks
lane_time(s, source, dest) ==
    transport_time(s.cfg.transit_times, source, dest).value * Day

\* lead_time= of the controller of facility f
lead_time(s, f) ==
    IF f = "regional_storage" THEN transit(s, "central_storage_to_regional_storage")
    ELSE transit(s, "regional_storage_to_trial_site")

\* quantity / self.production_rate, in ticks
production_time(s, quantity) == (quantity * Day) \div s.cfg.prod_rate

----------------------------------------------------------------------------
\* InventoryController

RECURSIVE SumLevels(_)
SumLevels(log) == IF log = <<>> THEN 0 ELSE Head(log)[2] + SumLevels(Tail(log))

\* calculate_average_daily_usage: total_usage sums the second component of
\* every entry of the facility's inventory_log
total_usage(s, f) == SumLevels(s.inventory_log[f])

\* (mutant of projected_below: the level alone is compared with the reorder
\* point, as the inventory_control of src/main.py does)
projected_below_level_only(s, f) == s.level[f] < s.cfg.reorder_point[f]

\* The test of run(): projected_inventory < reorder_point, where
\*   projected_inventory = level + on_order - forecasted_demand
\*   forecasted_demand   = average_daily_usage * forecast_window
\*   average_daily_usage = total_usage / days_passed if days_passed > 0 else 0
\* and days_passed = env.now = s.now / Day.  With s.now > 0 both sides are
\* multiplied by s.now, which keeps the comparison in the integers.
projected_below(s, f) ==
    IF s.now > 0
    THEN (s.level[f] + s.on_order[f] - s.cfg.reorder_point[f]) * s.now
            < total_usage(s, f) * Day * forecast_window
    ELSE s.level[f] + s.on_order[f] < s.cfg.reorder_point[f]

\* (mutant of run_evaluate: the order is started and not waited for, as the
\* function inventory_control does with its place_order)
run_evaluate_without_waiting(s, p) ==
    LET f  == s.procs[p].fac
        lo == projected_below(s, f)
        s1 == Note(s, Obs("evaluate", f, p, s.cfg.reorder_quantity[f],
                          <<s.level[f], s.on_order[f], total_usage(s, f), s.now>>, lo))
    IN  IF lo
        THEN timeout(process(Note(s1, Obs("place_order", f, p, s.cfg.reorder_quantity[f], 0, 0)),
                             "place_order", f, supplier(f), s.cfg.reorder_quantity[f], 0),
                     p, poll_interval * Day, "sleep")
        ELSE timeout(s1, p, poll_interval * Day, "sleep")

\* One pass of the loop of InventoryController.run, from the forecast to the
\* next yield.
run_evaluate(s, p) ==
    LET f  == s.procs[p].fac
        lo == projected_below(s, f)
        s1 == Note(s, Obs("evaluate", f, p, s.cfg.reorder_quantity[f],
                          <<s.level[f], s.on_order[f], total_usage(s, f), s.now>>, lo))
    IN  IF lo
        THEN yield_process(Note(s1, Obs("place_order", f, p, s.cfg.reorder_quantity[f], 0, 0)),
                           p, "place_order", f, supplier(f),
                           s.cfg.reorder_quantity[f], "wait_order")
        ELSE timeout(s1, p, poll_interval * Day, "sleep")

\* InventoryController.run
run(s, p) ==
    LET pc == s.procs[p].pc
    IN  IF pc = "wait_order" THEN timeout(s, p, poll_interval * Day, "sleep")
        ELSE run_evaluate(s, p)

\* (mutant of place_order: on_order is raised when the order is placed,
\* before the lead time, and not after the dispatch)
place_order_at_placement(s, p) ==
    LET pc == s.procs[p].pc
        f  == s.procs[p].fac
        q  == s.procs[p].quantity
    IN  IF pc = "start"
        THEN timeout(Note([s EXCEPT !.on_order[f] = @ + q],
                          Obs("on_order_added", f, p, q, s.on_order[f], s.on_order[f] + q)),
                     p, lead_time(s, f), "lead")
        ELSE IF pc = "lead"
            THEN yield_process(s, p, "dispatch_drug", supplier(f), destination(supplier(f)),
                               q, "dispatch")
        ELSE return(s, p)

\* InventoryController.place_order
place_order(s, p) ==
    LET pc == s.procs[p].pc
        f  == s.procs[p].fac
        q  == s.procs[p].quantity
    IN  IF pc = "start" THEN timeout(s, p, lead_time(s, f), "lead")
        ELSE IF pc = "lead"
            THEN yield_process(s, p, "dispatch_drug", supplier(f), destination(supplier(f)),
                               q, "dispatch")
        ELSE return(Note([s EXCEPT !.on_order[f] = @ + q],
                         Obs("on_order_added", f, p, q, s.on_order[f], s.on_order[f] + q)), p)

----------------------------------------------------------------------------
\* StorageFacility, TrialSite, ManufacturingFacility

\* (mutant of dispatch_check: the get is issued whatever the level, as the
\* dispatch_drug of src/main.py does)
dispatch_check_always(s, f, q) == TRUE

\* the availability test of StorageFacility.dispatch_drug
dispatch_check(s, f, q) == s.level[f] >= q

\* StorageFacility.dispatch_drug
dispatch_drug(s, p) ==
    LET pc == s.procs[p].pc
        f  == s.procs[p].fac
        q  == s.procs[p].quantity
    IN  IF pc = "start"
        THEN IF dispatch_check(s, f, q)
             THEN get(Note(s, Obs("dispatch", f, p, q, s.level[f], Len(s.get_queue[f]))),
                      f, q, p, "get")
             ELSE return(Note(s, Obs("dispatch_refused", f, p, q, s.level[f], 0)), p)
        ELSE IF pc = "get"
            THEN yield_process(log_inventory(s, f), p, "transport_drug", f,
                               destination(f), q, "transport")
        ELSE return(s, p)

\* (mutant of transport_drug: the call source.dispatch_drug(quantity) takes
\* the quantity from the source again when it is there)
transport_drug_removing(s, p) ==
    LET pc     == s.procs[p].pc
        source == s.procs[p].fac
        dest   == s.procs[p].peer
        q      == s.procs[p].quantity
        taken  == IF s.level[source] >= q
                  THEN log_inventory([s EXCEPT !.level[source] = @ - q], source)
                  ELSE s
    IN  IF pc = "start" THEN timeout(s, p, lane_time(s, source, dest), "transit")
        ELSE IF pc = "transit"
            THEN yield_process(taken, p, "receive_drug", dest, source, q, "receive")
        ELSE return(s, p)

\* transport_drug.  The call source.dispatch_drug(quantity) after the delay
\* only builds a generator that nothing iterates, so it does nothing.
transport_drug(s, p) ==
    LET pc     == s.procs[p].pc
        source == s.procs[p].fac
        dest   == s.procs[p].peer
        q      == s.procs[p].quantity
    IN  IF pc = "start" THEN timeout(s, p, lane_time(s, source, dest), "transit")
        ELSE IF pc = "transit"
            THEN yield_process(Note(s, Obs("transported", source, p, q, s.level[source], 0)),
                               p, "receive_drug", dest, source, q, "receive")
        ELSE return(s, p)

\* what receive_drug does to on_order once the put has gone through:
\* StorageFacility.receive_drug subtracts the quantity, and the
\* TrialSite.receive_drug that is in force (the second definition) leaves
\* on_order alone
received_on_order(s, f, q) ==
    IF f \in Storages THEN s.on_order[f] - q ELSE s.on_order[f]

\* StorageFacility.receive_drug and TrialSite.receive_drug
receive_drug(s, p) ==
    LET pc == s.procs[p].pc
        f  == s.procs[p].fac
        q  == s.procs[p].quantity
    IN  IF pc = "start" THEN put(s, f, q, p, "put")
        ELSE LET s1 == log_inventory(s, f)
                 s2 == [s1 EXCEPT !.on_order[f] = received_on_order(s, f, q)]
             IN  return(Note(s2, Obs("received", f, p, q, s.on_order[f], s2.on_order[f])), p)

\* ManufacturingFacility.produce_drug
produce_drug(s, p) ==
    LET pc == s.procs[p].pc
        q  == s.procs[p].quantity
    IN  IF pc = "start" THEN timeout(s, p, production_time(s, q), "producing")
        ELSE IF pc = "producing" THEN put(s, "manufacturer", q, p, "put")
        ELSE return(log_inventory(s, "manufacturer"), p)

\* distribute_drug_manufacturer_to_storage
distribute_drug_manufacturer_to_storage(s, p) ==
    LET pc == s.procs[p].pc
        q  == s.procs[p].quantity
    IN  IF pc = "start"
        THEN yield_process(s, p, "produce_drug", "manufacturer", "central_storage", q, "produce")
        ELSE IF pc = "produce"
            THEN timeout(s, p, transit(s, "manufacturer_to_central_storage"), "transit")
        ELSE IF pc = "transit"
            THEN yield_process(s, p, "receive_drug", "central_storage", "manufacturer", q, "receive")
        ELSE return(s, p)

\* distribute_drug_storage_to_storage
distribute_drug_storage_to_storage(s, p) ==
    LET pc == s.procs[p].pc
        q  == s.procs[p].quantity
    IN  IF pc = "start" THEN get(s, "central_storage", q, p, "get")
        ELSE IF pc = "get"
            THEN timeout(s, p, transit(s, "central_storage_to_regional_storage"), "transit")
        ELSE IF pc = "transit"
            THEN yield_process(s, p, "receive_drug", "regional_storage", "central_storage", q, "receive")
        ELSE return(s, p)

----------------------------------------------------------------------------
\* Patients

\* the availability test of TrialSite.patient_demand
dose_check(s, amount) == s.level["trial_site"] >= amount

\* (mutant of stockout: the level is logged before the error is raised, as
\* consume_drug logs after a dose it could not serve)
stockout_logged(s, p, amount) ==
    raise(Note(log_inventory(s, "trial_site"),
               Obs("stockout", "trial_site", p, amount, s.level["trial_site"], s.now)), p)

\* the else branch of patient_demand: raise ValueError("Stockout occurred ...")
stockout(s, p, amount) ==
    raise(Note(s, Obs("stockout", "trial_site", p, amount, s.level["trial_site"], s.now)), p)

\* DosageSchedule.__init__
DosageSchedule(dose_amount, dose_interval) ==
    [dose_amount |-> dose_amount, dose_interval |-> dose_interval,
     next_dose_time |-> initial_next_dose_time]

\* (mutant of next_dose: the next dose time moves on by one day whatever
\* the interval)
next_dose_unit_step(d) ==
    [schedule |-> [d EXCEPT !.next_dose_time = @ + 1], value |-> d.dose_amount]

\* DosageSchedule.next_dose: the schedule after the call and what the call
\* returns
next_dose(d) ==
    [schedule |-> [d EXCEPT !.next_dose_time = @ + d.dose_interval],
     value |-> d.dose_amount]

\* DosageSchedule.get_next_dose_time: the schedule after the call and what
\* the call returns
get_next_dose_time(d) == [schedule |-> d, value |-> d.next_dose_time]

\* TrialSite.patient_demand with the DosageSchedule that enroll_patient
\* built for it: the delay of each timeout is get_next_dose_time(), and
\* next_dose() adds dose_interval to next_dose_time and returns
\* dose_amount.
patient_demand(s, p) ==
    LET pc     == s.procs[p].pc
        d      == [DosageSchedule(s.cfg.dosage.amount, s.cfg.dosage.interval)
                      EXCEPT !.next_dose_time = s.procs[p].next_dose_time]
        due    == get_next_dose_time(d).value
        dose   == next_dose(d)
        amount == dose.value
    IN  IF pc = "start" THEN timeout(s, p, due * Day, "due")
        ELSE IF pc = "due"
            THEN LET s1 == [s EXCEPT !.procs[p].next_dose_time = dose.schedule.next_dose_time]
                 IN  IF dose_check(s1, amount)
                     THEN get(Note(s1, Obs("dose", "trial_site", p, amount,
                                           s.level["trial_site"], Len(s.get_queue["trial_site"]))),
                              "trial_site", amount, p, "get")
                     ELSE stockout(s1, p, amount)
        ELSE timeout(Note(log_inventory(s, "trial_site"),
                          Obs("consumed", "trial_site", p, s.cfg.dosage.amount,
                              s.level["trial_site"], 0)),
                     p, due * Day, "due")

\* TrialSite.enroll_patient
enroll_patient(s) ==
    process([s EXCEPT !.patients = @ + 1], "patient_demand", "trial_site", "none",
            s.cfg.dosage.amount, 0)

\* The next interarrival delay of patient_enrollment.  Once MaxArrivals
\* delays have been drawn, the next one is taken to reach beyond
\* simulation_time.
next_arrival(s, p, gap) ==
    IF s.arrivals < MaxArrivals
    THEN timeout([s EXCEPT !.arrivals = @ + 1], p, gap, "wait")
    ELSE timeout(s, p, s.cfg.simulation_time * Day + 1, "wait")

\* patient_enrollment; gap is the draw of random.expovariate and enroll the
\* outcome of random.random() >= dropout_rate
patient_enrollment(s, p, gap, enroll) ==
    LET pc == s.procs[p].pc
    IN  IF pc = "start" THEN next_arrival(s, p, gap)
        ELSE IF enroll
            THEN next_arrival(Note(enroll_patient(s), Obs("enrolled", "trial_site", p, 0, s.now, 0)),
                              p, gap)
        ELSE next_arrival(Note(s, Obs("dropout", "trial_site", p, 0, s.now, 0)), p, gap)

----------------------------------------------------------------------------
\* Process._resume: the generator of p runs up to its next yield.

resume(s, p, gap, enroll) ==
    LET kind == s.procs[p].kind
    IN  CASE kind = "run" -> run(s, p)
          [] kind = "place_order" -> place_order(s, p)
          [] kind = "dispatch_drug" -> dispatch_drug(s, p)
          [] kind = "transport_drug" -> transport_drug(s, p)
          [] kind = "receive_drug" -> receive_drug(s, p)
          [] kind = "produce_drug" -> produce_drug(s, p)
          [] kind = "distribute_drug_manufacturer_to_storage"
                -> distribute_drug_manufacturer_to_storage(s, p)
          [] kind = "distribute_drug_storage_to_storage"
                -> distribute_drug_storage_to_storage(s, p)
          [] kind = "patient_demand" -> patient_demand(s, p)
          [] kind = "patient_enrollment" -> patient_enrollment(s, p, gap, enroll)

----------------------------------------------------------------------------
\* The configurations (data.yml) the model is run on.  Quantities are in
\* units of drug, times in days.  target_enrollment is a key that no line
\* of the program reads: patient_enrollment is handed the mean interarrival
\* time, the dropout rate and the dosage, and nothing else.

TransitTimes ==
    { [l \in {"manufacturer_to_central_storage", "central_storage_to_regional_storage",
              "regional_storage_to_trial_site", "default"} |->
            IF l = "central_storage_to_regional_storage" THEN cr ELSE 1]
      : cr \in {1} }

Configs ==
    { [ prod_rate        |-> 2,
        produce          |-> 2,
        capacity         |-> [f \in Facilities |->
                                CASE f = "manufacturer" -> mcap
                                  [] f = "central_storage" -> 4
                                  [] f = "regional_storage" -> 4
                                  [] f = "trial_site" -> scap],
        initial_inventory |-> [f \in Facilities |->
                                CASE f = "manufacturer" -> 0
                                  [] f = "central_storage" -> cinit
                                  [] f = "regional_storage" -> rinit
                                  [] f = "trial_site" -> sinit],
        initial_order    |-> [f \in Storages |-> 2],
        reorder_point    |-> [f \in Controlled |-> 2],
        reorder_quantity |-> [f \in Controlled |->
                                IF f = "regional_storage" THEN 1 ELSE 2],
        dosage           |-> [amount |-> amt, interval |-> 1],
        transit_times    |-> tt,
        target_enrollment |-> 1,
        simulation_time  |-> T ]
      : mcap \in {2, 4}, scap \in {2, 4}, cinit \in {1, 3}, rinit \in {0, 2},
        sinit \in {1, 2}, amt \in {1, 2}, tt \in TransitTimes,
        T \in {2, MaxSimTime} }

\* What the constructors and the arithmetic of the program need of a
\* configuration: simpy.Container refuses capacity <= 0 and an init outside
\* 0..capacity, put and get refuse an amount <= 0, env.run refuses
\* until <= 0, and production times are whole ticks.  With a lane or the
\* default missing from transit_times the program dies of a KeyError (see
\* TransitSpec); the runs followed here have the whole table.
ValidConfig(c) ==
    /\ \A f \in Facilities : c.capacity[f] > 0
                             /\ c.initial_inventory[f] \in 0..c.capacity[f]
    /\ c.prod_rate > 0 /\ c.produce > 0
    /\ \A f \in Storages : c.initial_order[f] > 0
    /\ \A f \in Controlled : c.reorder_quantity[f] > 0
    /\ c.dosage.amount > 0 /\ c.dosage.interval > 0
    /\ \A l \in DOMAIN c.transit_times : c.transit_times[l] >= 0
    /\ {"manufacturer_to_central_storage", "central_storage_to_regional_storage",
        "regional_storage_to_trial_site", "default"} \subseteq DOMAIN c.transit_times
    /\ c.simulation_time > 0
    /\ (c.produce * Day) % c.prod_rate = 0
    /\ (c.initial_order["central_storage"] * Day) % c.prod_rate = 0

----------------------------------------------------------------------------
\* run_simulation up to env.run: the facilities, the two controllers (each
\* starts its run process), the two initial distributions, the enrollment
\* and the extra production, in this order; env.run(until=simulation_time)
\* then schedules the until event urgently at simulation_time.

InitialProcs(c) ==
    << NewProc("run", "regional_storage", "central_storage", 0, 0),
       NewProc("run", "trial_site", "regional_storage", 0, 0),
       NewProc("distribute_drug_manufacturer_to_storage", "manufacturer", "central_storage",
               c.initial_order["central_storage"], 0),
       NewProc("distribute_drug_storage_to_storage", "central_storage", "regional_storage",
               c.initial_order["regional_storage"], 0),
       NewProc("patient_enrollment", "trial_site", "none", 0, 0),
       NewProc("produce_drug", "manufacturer", "none", c.produce, 0) >>

Init ==
    /\ cfg \in {c \in Configs : ValidConfig(c)}
    /\ now = 0
    /\ procs = InitialProcs(cfg)
    /\ queue = { [time |-> 0, prio |-> 0, eid |-> p - 1, kind |-> "Initialize",
                  proc |-> p, cont |-> "none", ok |-> TRUE] : p \in 1..Len(procs) }
               \cup { [time |-> cfg.simulation_time * Day, prio |-> 0, eid |-> Len(procs),
                       kind |-> "Until", proc |-> 0, cont |-> "none", ok |-> TRUE] }
    /\ eid = Len(procs) + 1
    /\ level = cfg.initial_inventory
    /\ get_queue = [f \in Facilities |-> <<>>]
    /\ put_queue = [f \in Facilities |-> <<>>]
    /\ on_order = [f \in Ordering |-> 0]
    /\ inventory_log = [f \in Facilities |-> << <<0, cfg.initial_inventory[f]>> >>]
    /\ patients = 0
    /\ arrivals = 0
    /\ status = "running"
    /\ withdrawn = [f \in Facilities |-> 0]
    /\ dosage_schedule = DosageSchedule(cfg.dosage.amount, cfg.dosage.interval)
    /\ returned = <<>>
    /\ last = <<>>

----------------------------------------------------------------------------
\* env.step(), by the kind of the event that is processed.

Running == status = "running" /\ queue # {}

\* the event heappop returns, and the state once it is popped and the clock
\* is set to its time
Popped == NextEvent(queue)

AfterPop ==
    [State EXCEPT !.now = Popped.time, !.queue = @ \ {Popped},
                  !.last = <<Obs(Popped.kind, Popped.cont, Popped.proc, Popped.eid,
                                 Popped.time, Popped.ok)>>]

\* the draws of the random module a resumption of p consumes
Gaps(p) ==
    IF procs[p].kind = "patient_enrollment" THEN 0..MaxGap ELSE {0}

Enrolls(p) ==
    IF procs[p].kind = "patient_enrollment" /\ procs[p].pc # "start"
    THEN BOOLEAN ELSE {FALSE}

\* an Initialize event: the new process runs to its first yield
StepInitialize ==
    /\ Running /\ Popped.kind = "Initialize"
    /\ \E gap \in Gaps(Popped.proc) :
          Commit(resume(AfterPop, Popped.proc, gap, FALSE))

\* a Timeout event: the process that yielded it goes on
StepTimeout ==
    /\ Running /\ Popped.kind = "Timeout"
    /\ \E gap \in Gaps(Popped.proc), enroll \in Enrolls(Popped.proc) :
          Commit(resume(AfterPop, Popped.proc, gap, enroll))

\* a ContainerPut event: first the container's _trigger_get callback, then
\* the process that yielded the put
StepContainerPut ==
    /\ Running /\ Popped.kind = "ContainerPut"
    /\ Commit(resume(_trigger_get(AfterPop, Popped.cont), Popped.proc, 0, FALSE))

\* a ContainerGet event: first the container's _trigger_put callback, then
\* the process that yielded the get
StepContainerGet ==
    /\ Running /\ Popped.kind = "ContainerGet"
    /\ Commit(resume(_trigger_put(AfterPop, Popped.cont), Popped.proc, 0, FALSE))

\* the event of a process that returned: the process that yielded it, if
\* any, goes on
StepProcess ==
    /\ Running /\ Popped.kind = "Process" /\ Popped.ok
    /\ IF Popped.proc = 0 THEN Commit(AfterPop)
       ELSE Commit(resume(AfterPop, Popped.proc, 0, FALSE))

\* the event of a process that raised: the exception is thrown into the
\* process that yielded it (no generator of the program catches anything,
\* so that one raises in turn), and leaves env.run when nobody did;
\* run_simulation catches the ValueError
StepProcessFailed ==
    /\ Running /\ Popped.kind = "Process" /\ ~Popped.ok
    /\ IF Popped.proc = 0 THEN Commit([AfterPop EXCEPT !.status = "stockout"])
       ELSE Commit(raise(AfterPop, Popped.proc))

\* (mutant of StepUntil: the until event carries no callback that stops the
\* run, which goes on with the events behind it)
StepUntil_without_stop ==
    /\ Running /\ Popped.kind = "Until"
    /\ Commit(AfterPop)

\* the until event: env.run returns
StepUntil ==
    /\ Running /\ Popped.kind = "Until"
    /\ Commit([AfterPop EXCEPT !.status = "finished"])

Next ==
    \/ StepInitialize
    \/ StepTimeout
    \/ StepContainerPut
    \/ StepContainerGet
    \/ StepProcess
    \/ StepProcessFailed
    \/ StepUntil

Spec == Init /\ [][Next]_vars

\* env.run is a loop that calls env.step() until the run has returned or
\* raised: a step that can be taken is taken.  This is WF_vars(Next) with
\* ENABLED <<Next>>_vars written as the state predicate it amounts to: a
\* step can be taken exactly when the run is going (Running), since every
\* kind of event has its step and every step takes an event off the queue.
LiveSpec == Spec /\ ([]<>(~Running) \/ []<><<Next>>_vars)

----------------------------------------------------------------------------
\* Properties.

\* the observations of the most recent step that satisfy nothing but op
Seen(op) == {i \in 1..Len(last) : last[i].op = op}

\* the processes waiting in a queue of requests
Waiting(q) == {q[i].proc : i \in 1..Len(q)}

\* C1: the level of every facility's container is within 0..capacity in
\* every reachable state.
C1_ContainerInvariant ==
    \A f \in Facilities : 0 <= level[f] /\ level[f] <= cfg.capacity[f]

\* a put is held back because it would take the level above the capacity
C1_Witness ==
    \E f \in Facilities :
        /\ put_queue[f] # <<>>
        /\ level[f] + Head(put_queue[f]).amount > cfg.capacity[f]

\* the grant i of the most recent step went to a process that had been
\* waiting since an earlier step
WaitedFor(i) ==
    /\ last[i].op = "get_granted"
    /\ ~\E j \in Seen("get") : last[j].proc = last[i].proc

\* C2: a process whose get cannot be met is suspended in the container's
\* queue (nothing scheduled will resume it); it is granted only while a put
\* on that container is being processed, with the level at least its
\* amount, and the grant takes exactly that amount off the level.
C2_GetSuspends ==
    /\ \A c \in Facilities : \A i \in 1..Len(get_queue[c]) :
          /\ procs[get_queue[c][i].proc].pc = "get"
          /\ \A e \in queue : e.proc # get_queue[c][i].proc
    /\ \A i \in Seen("get_granted") :
          /\ last[i].a >= last[i].qty
          /\ last[i].b = last[i].a - last[i].qty
          /\ WaitedFor(i) => last[1].op = "ContainerPut" /\ last[1].fac = last[i].fac

\* a get that had to wait has just been granted
C2_Witness == \E i \in 1..Len(last) : WaitedFor(i)

\* One step keeps the order of arrival among the get requests of container c:
\* of the requests that were waiting, those granted are the front ones; a
\* request made in this step is granted in it only when no older one is
\* left waiting; and the grants are made in the order of the queue.
FifoStep(c) ==
    LET old == get_queue[c]
        new == get_queue'[c]
        GrantAt(p) == CHOOSE i \in 1..Len(last') :
                          last'[i].op = "get_granted" /\ last'[i].proc = p
    IN  /\ \A i, j \in 1..Len(old) :
              i < j /\ old[j].proc \notin Waiting(new) => old[i].proc \notin Waiting(new)
        /\ \A i \in 1..Len(last') :
              /\ last'[i].op = "get_granted"
              /\ last'[i].fac = c
              /\ last'[i].proc \notin Waiting(old)
              => Waiting(old) \cap Waiting(new) = {}
        /\ \A i, j \in 1..Len(old) :
              i < j /\ old[j].proc \notin Waiting(new)
              => GrantAt(old[i].proc) < GrantAt(old[j].proc)

\* C3: the get requests of a container are granted in the order in which
\* they arrived, also when a later, smaller request could be met by the
\* level and the earlier one cannot.
C3_FIFO == [][\A c \in Facilities : FifoStep(c)]_vars

\* two requests wait, the level covers the second and not the first
C3_Witness ==
    \E c \in Facilities :
        /\ Len(get_queue[c]) >= 2
        /\ level[c] < get_queue[c][1].amount
        /\ level[c] >= get_queue[c][2].amount

\* the event of a process that raised
Failed(e) == e.kind = "Process" /\ ~e.ok

\* the step about to be taken resumes patient p at a dose that is due
DoseDue(p) ==
    /\ Running
    /\ Popped.kind = "Timeout"
    /\ Popped.proc = p
    /\ procs[p].kind = "patient_demand"

\* the step about to be taken is a dose that the trial site cannot serve
FailingDose ==
    \E p \in 1..Len(procs) :
        DoseDue(p) /\ level["trial_site"] < cfg.dosage.amount

DispatchStarts(p) ==
    /\ Running
    /\ Popped.kind = "Initialize"
    /\ Popped.proc = p
    /\ procs[p].kind = "dispatch_drug"

\* C6: a dispatch of more than the facility's level changes no level, no
\* log and no queue of any container, starts no process (no transport) and
\* returns at once, and the run goes on.
C6_DispatchRefused ==
    [][\A p \in 1..Len(procs) :
          DispatchStarts(p) /\ level[procs[p].fac] < procs[p].quantity
          => /\ level' = level
             /\ inventory_log' = inventory_log
             /\ get_queue' = get_queue
             /\ put_queue' = put_queue
             /\ Len(procs') = Len(procs)
             /\ procs'[p].pc = "done"
             /\ status' = "running"]_vars

\* a dispatch has just been refused
C6_Witness ==
    \E i \in Seen("dispatch_refused") : last[i].a < last[i].qty

\* the step about to be taken is a dispatch by p that passes the check
DispatchPasses(p) ==
    DispatchStarts(p) /\ level[procs[p].fac] >= procs[p].quantity

\* the step about to be taken starts the transport_drug process p
TransportStarts(p) ==
    /\ Running
    /\ Popped.kind = "Initialize"
    /\ Popped.proc = p
    /\ procs[p].kind = "transport_drug"

\* the step about to be taken ends the transit delay of transport p
TransportArrives(p) ==
    /\ Running
    /\ Popped.kind = "Timeout"
    /\ Popped.proc = p
    /\ procs[p].kind = "transport_drug"

\* the step about to be taken starts the receive_drug that transport
\* process t yielded
DeliveryStarts(p) ==
    /\ Running
    /\ Popped.kind = "Initialize"
    /\ Popped.proc = p
    /\ procs[p].kind = "receive_drug"
    /\ procs[p].parent # 0
    /\ procs[procs[p].parent].kind = "transport_drug"

\* the configured time of the lane from facility f to its destination, in ticks
LaneTicks(f) ==
    Day * (IF f = "central_storage"
           THEN cfg.transit_times["central_storage_to_regional_storage"]
           ELSE cfg.transit_times["regional_storage_to_trial_site"])

\* the transport of a dispatch is started with the lane's delay, takes
\* nothing from its source when the delay ends, and then starts the
\* destination's receive_drug for the dispatched quantity
TransportFrame ==
    \A p \in 1..Len(procs) :
        /\ TransportStarts(p) =>
              /\ procs[p].quantity = procs[procs[p].parent].quantity
              /\ procs[p].peer = destination(procs[p].fac)
              /\ \E e \in queue' : /\ e.kind = "Timeout" /\ e.proc = p
                                   /\ e.time = now' + LaneTicks(procs[p].fac)
              /\ level' = level
        /\ TransportArrives(p) =>
              /\ level' = level
              /\ inventory_log' = inventory_log
              /\ get_queue' = get_queue
              /\ Len(procs') = Len(procs) + 1
              /\ procs'[Len(procs')].kind = "receive_drug"
              /\ procs'[Len(procs')].fac = procs[p].peer
              /\ procs'[Len(procs')].quantity = procs[p].quantity

C8_ReceiveClampsOnOrder ==
    \A i \in Seen("received") :
        LET f == last[i].fac
        IN  /\ inventory_log[f][Len(inventory_log[f])] = <<now, level[f]>>
            /\ on_order[f] = IF last[i].a - last[i].qty > 0
                             THEN last[i].a - last[i].qty ELSE 0

\* C9 as claimed: on_order is never negative.
C9_OnOrderNonNegative == \A f \in Ordering : on_order[f] >= 0

\* C10: an evaluation of a controller starts exactly one place_order
\* process, for reorder_quantity and towards its supplier, when
\* level + on_order - forecasted_demand < reorder_point, and none otherwise.
\* forecasted_demand is what forecast_demand returns, the sum of the logged
\* levels divided by the days passed (0 at time 0) times forecast_window;
\* the comparison is multiplied through by the time passed.
C10_ReorderTrigger ==
    \A i \in Seen("evaluate") :
        LET f      == last[i].fac
            rp     == cfg.reorder_point[f]
            below  == IF now > 0
                      THEN (level[f] + on_order[f] - rp) * now
                              < SumLevels(inventory_log[f]) * forecast_window * Day
                      ELSE level[f] + on_order[f] < rp
            orders == {k \in 1..Len(procs) : /\ procs[k].kind = "place_order"
                                             /\ procs[k].parent = last[i].proc
                                             /\ procs[k].pc = "start"}
        IN  /\ Cardinality(orders) = IF below THEN 1 ELSE 0
            /\ \A k \in orders : /\ procs[k].quantity = cfg.reorder_quantity[f]
                                 /\ procs[k].fac = f
                                 /\ procs[k].peer = supplier(f)

\* a controller has just ordered although level + on_order is not below the
\* reorder point: the forecast decided
C10_Witness ==
    \E i \in Seen("place_order") :
        level[last[i].fac] + on_order[last[i].fac] >= cfg.reorder_point[last[i].fac]

\* C11 as claimed: a controller evaluates every poll_interval: whenever it
\* has evaluated, whether it ordered or not, its next evaluation is
\* scheduled poll_interval later.
C11_PollsEveryUnit ==
    \A i \in Seen("evaluate") :
        \E e \in queue : /\ e.kind = "Timeout"
                         /\ e.proc = last[i].proc
                         /\ e.time = now + poll_interval * Day

\* C12 as claimed: at every evaluation the forecast of the controller,
\* average_daily_usage * forecast_window, is the quantity taken out of the
\* facility so far divided by the days passed, times forecast_window, and 0
\* at time 0.  (Both sides are multiplied by the time passed; at time 0 the
\* forecast is 0 on both sides.)
C12_ForecastFromConsumption ==
    \A i \in Seen("evaluate") :
        now > 0 =>
            total_usage(State, last[i].fac) * forecast_window * Day
                = withdrawn[last[i].fac] * forecast_window * Day

\* the step about to be taken resumes the place_order process p
OrderResumes(p) ==
    /\ Running
    /\ Popped.proc = p
    /\ procs[p].kind = "place_order"

\* the dispatch_drug process that the place_order process p yielded
DispatchOf(p) ==
    {k \in 1..Len(procs) : procs[k].kind = "dispatch_drug" /\ procs[k].parent = p}

\* C13: an order first waits for the lead time with on_order untouched;
\* when the lead time has passed it starts supplier.dispatch_drug for the
\* reorder quantity, still with on_order untouched; and it goes on only
\* when that dispatch has returned, and then adds the reorder quantity to
\* the facility's on_order and ends.  on_order of a facility is raised by
\* nothing else, so it is raised once per order, and whether the dispatch
\* was served or refused.
C13_OrderSequence ==
    [][/\ \A p \in 1..Len(procs) :
            procs[p].kind = "place_order" =>
              LET f  == procs[p].fac
                  q  == procs[p].quantity
                  pc == procs[p].pc
              IN  /\ q = cfg.reorder_quantity[f]
                  /\ ~OrderResumes(p) => procs'[p] = procs[p]
                  /\ OrderResumes(p) /\ pc = "start" =>
                        /\ Popped.kind = "Initialize"
                        /\ on_order' = on_order
                        /\ procs'[p].pc = "lead"
                        /\ \E e \in queue' : /\ e.kind = "Timeout" /\ e.proc = p
                                             /\ e.time = now' + LaneTicks(supplier(f))
                  /\ OrderResumes(p) /\ pc = "lead" =>
                        /\ Popped.kind = "Timeout"
                        /\ on_order' = on_order
                        /\ procs'[p].pc = "dispatch"
                        /\ DispatchOf(p) = {}
                        /\ Len(procs') = Len(procs) + 1
                        /\ procs'[Len(procs')].kind = "dispatch_drug"
                        /\ procs'[Len(procs')].fac = supplier(f)
                        /\ procs'[Len(procs')].quantity = q
                        /\ procs'[Len(procs')].parent = p
                        /\ procs'[Len(procs')].pc = "start"
                  /\ OrderResumes(p) /\ pc = "dispatch" =>
                        /\ Popped.kind = "Process" /\ Popped.ok
                        /\ \E k \in DispatchOf(p) : procs[k].pc = "done"
                        /\ on_order' = [on_order EXCEPT ![f] = @ + q]
                        /\ procs'[p].pc = "done"
                  /\ pc = "done" => ~OrderResumes(p)
       /\ \A f \in Ordering :
            on_order'[f] > on_order[f] =>
                \E p \in 1..Len(procs) :
                    OrderResumes(p) /\ procs[p].fac = f /\ procs[p].pc = "dispatch"]_vars

\* an order has just raised on_order although its dispatch was refused (no
\* transport was started for it)
C13_Witness ==
    \E i \in Seen("on_order_added") :
        \A k \in DispatchOf(last[i].proc) :
            ~\E t \in 1..Len(procs) :
                procs[t].kind = "transport_drug" /\ procs[t].parent = k

\* C14 as claimed: the dose attempts of one patient are dose_interval
\* apart: when a patient has taken a dose, its next attempt is scheduled
\* dose_interval later.
C14_DosesEveryInterval ==
    \A i \in Seen("consumed") :
        \E e \in queue : /\ e.kind = "Timeout"
                         /\ e.proc = last[i].proc
                         /\ e.time = now + cfg.dosage.interval * Day

----------------------------------------------------------------------------
\* A DosageSchedule called on its own: the schedule is built for some
\* dose_amount and dose_interval, and next_dose() and get_next_dose_time()
\* are called on it in any order.  No simulation runs.

NotRunning ==
    /\ now = 0
    /\ queue = {}
    /\ eid = 0
    /\ procs = <<>>
    /\ level = [f \in Facilities |-> 0]
    /\ get_queue = [f \in Facilities |-> <<>>]
    /\ put_queue = [f \in Facilities |-> <<>>]
    /\ on_order = [f \in Ordering |-> 0]
    /\ inventory_log = [f \in Facilities |-> <<>>]
    /\ patients = 0
    /\ arrivals = 0
    /\ status = "not running"
    /\ withdrawn = [f \in Facilities |-> 0]
    /\ last = <<>>

simulation == <<cfg, now, queue, eid, procs, level, get_queue, put_queue, on_order,
                inventory_log, patients, arrivals, status, withdrawn, last>>

DosageInit ==
    /\ \E amount \in 1..MaxDose, interval \in 1..MaxInterval :
          /\ cfg = [dosage |-> [amount |-> amount, interval |-> interval]]
          /\ dosage_schedule = DosageSchedule(amount, interval)
    /\ returned = <<>>
    /\ NotRunning

Call(name, r) ==
    /\ Len(returned) < MaxCalls
    /\ dosage_schedule' = r.schedule
    /\ returned' = Append(returned, [call |-> name, value |-> r.value])
    /\ UNCHANGED simulation

CallNextDose == Call("next_dose", next_dose(dosage_schedule))

CallGetNextDoseTime == Call("get_next_dose_time", get_next_dose_time(dosage_schedule))

DosageNext ==
    \/ CallNextDose
    \/ CallGetNextDoseTime

DosageSpec == DosageInit /\ [][DosageNext]_vars

\* how many of the first k calls were calls of next_dose
Doses(k) == Cardinality({j \in 1..k : returned[j].call = "next_dose"})

\* C15: after n calls of next_dose, whatever calls of get_next_dose_time lie
\* between them, the next dose time is the initial one plus n times
\* dose_interval; every call of next_dose returned dose_amount; every call
\* of get_next_dose_time returned the next dose time of that moment and
\* changed nothing; dose_amount and dose_interval stay as constructed.
C15_DosageProgression ==
    /\ dosage_schedule.next_dose_time
          = initial_next_dose_time + Doses(Len(returned)) * cfg.dosage.interval
    /\ dosage_schedule.dose_amount = cfg.dosage.amount
    /\ dosage_schedule.dose_interval = cfg.dosage.interval
    /\ \A k \in 1..Len(returned) :
          returned[k].value =
              IF returned[k].call = "next_dose" THEN cfg.dosage.amount
              ELSE initial_next_dose_time + Doses(k - 1) * cfg.dosage.interval

\* get_next_dose_time has been called after three calls of next_dose on a
\* schedule whose interval is not 1
C15_Witness ==
    /\ cfg.dosage.interval > 1
    /\ \E k \in 1..Len(returned) :
          returned[k].call = "get_next_dose_time" /\ Doses(k - 1) = 3

----------------------------------------------------------------------------
\* Properties, continued.

\* C16 as claimed, for a run set to lenient mode: a dose that comes due
\* while the trial site's level is below the dose amount leaves every level
\* as it is, fails nothing, leaves the run running, and the patient waits
\* for its next dose.  (Nothing in the configuration selects a mode: every
\* run of the program is the one checked here.)
C16_LenientDoseSkipped ==
    [][\A p \in 1..Len(procs) :
          DoseDue(p) /\ level["trial_site"] < cfg.dosage.amount
          => /\ level' = level
             /\ \A e \in queue' : ~Failed(e)
             /\ status' = "running"
             /\ procs'[p].pc = "due"
             /\ \E e \in queue' : e.kind = "Timeout" /\ e.proc = p]_vars

----------------------------------------------------------------------------
\* The transit-time look-ups on their own: transit_times is any table over
\* a subset of the lane names and "default", and one of the look-ups of
\* transport_drug and of the two initial distributions is made on it.  No
\* simulation runs.

LaneNames ==
    {"manufacturer_to_central_storage", "central_storage_to_regional_storage",
     "regional_storage_to_trial_site", "default"}

Tables == UNION {[keys -> 1..MaxTransit] : keys \in SUBSET LaneNames}

TransitInit ==
    /\ \E table \in Tables : cfg = [transit_times |-> table]
    /\ dosage_schedule = DosageSchedule(1, 1)
    /\ returned = <<>>
    /\ NotRunning

Lookup(name, key, r) ==
    /\ returned = <<>>
    /\ returned' = <<[call |-> name, key |-> key, raised |-> r.raised, value |-> r.value]>>
    /\ UNCHANGED <<simulation, dosage_schedule>>

\* transport_drug, from a storage facility to its destination
LookupTransport ==
    \E source \in Storages :
        Lookup("transport_drug", lane(source, destination(source)),
               transport_time(cfg.transit_times, source, destination(source)))

\* distribute_drug_manufacturer_to_storage
LookupManufacturerToStorage ==
    Lookup("distribute_drug_manufacturer_to_storage", "manufacturer_to_central_storage",
           item(cfg.transit_times, "manufacturer_to_central_storage"))

\* distribute_drug_storage_to_storage
LookupStorageToStorage ==
    Lookup("distribute_drug_storage_to_storage", "central_storage_to_regional_storage",
           item(cfg.transit_times, "central_storage_to_regional_storage"))

TransitNext ==
    \/ LookupTransport
    \/ LookupManufacturerToStorage
    \/ LookupStorageToStorage

TransitSpec == TransitInit /\ [][TransitNext]_vars

\* the look-ups made so far
Lookups == {k \in 1..Len(returned) : returned[k].call # "next_dose"
                                     /\ returned[k].call # "get_next_dose_time"}

\* C17 as claimed: every look-up raises nothing and yields the time of its
\* lane when the lane is in the table and the default time otherwise.
C17_LookupNeverFails ==
    \A k \in Lookups :
        /\ returned[k].raised = "none"
        /\ returned[k].value = IF returned[k].key \in DOMAIN cfg.transit_times
                               THEN cfg.transit_times[returned[k].key]
                               ELSE cfg.transit_times["default"]

----------------------------------------------------------------------------
\* Properties, continued.

\* C18 as claimed: of the events of one instant, the one scheduled first is
\* resolved first: when an event has been resolved, every event still
\* queued for that instant was scheduled after it (has a greater eid).
C18_ScheduledFirstResolvedFirst ==
    last # <<>> =>
        \A e \in queue : e.time = last[1].a => e.eid > last[1].qty

\* what the step about to be taken leaves behind when the random module
\* hands it the draws gap and enroll: the event at the head of the queue is
\* resolved according to its kind
Resolve(gap, enroll) ==
    LET e == Popped
    IN  CASE e.kind = "Initialize" -> resume(AfterPop, e.proc, gap, FALSE)
          [] e.kind = "Timeout" -> resume(AfterPop, e.proc, gap, enroll)
          [] e.kind = "ContainerPut" ->
                resume(_trigger_get(AfterPop, e.cont), e.proc, 0, FALSE)
          [] e.kind = "ContainerGet" ->
                resume(_trigger_put(AfterPop, e.cont), e.proc, 0, FALSE)
          [] e.kind = "Process" /\ e.ok /\ e.proc = 0 -> AfterPop
          [] e.kind = "Process" /\ e.ok /\ e.proc # 0 -> resume(AfterPop, e.proc, 0, FALSE)
          [] e.kind = "Process" /\ ~e.ok /\ e.proc = 0 -> [AfterPop EXCEPT !.status = "stockout"]
          [] e.kind = "Process" /\ ~e.ok /\ e.proc # 0 -> raise(AfterPop, e.proc)
          [] e.kind = "Until" -> [AfterPop EXCEPT !.status = "finished"]

\* the step about to be taken resumes patient_enrollment, which draws
DrawsGap ==
    /\ Popped.kind \in {"Initialize", "Timeout"}
    /\ procs[Popped.proc].kind = "patient_enrollment"
    /\ arrivals < MaxArrivals

DrawsEnroll ==
    /\ Popped.kind = "Timeout"
    /\ procs[Popped.proc].kind = "patient_enrollment"

\* the draws the step just taken was handed, as far as it drew any: the
\* delay of the timeout it scheduled for patient_enrollment, and whether it
\* enrolled a patient
DrewGap(gap) ==
    \E e \in queue' : /\ e.kind = "Timeout" /\ e.proc = Popped.proc
                      /\ e.eid >= eid /\ e.time = now' + gap

DrewEnroll(enroll) == enroll <=> (\E i \in 1..Len(last') : last'[i].op = "enrolled")

C20_RunUntil ==
    /\ [][now' >= now]_vars
    /\ [](/\ now <= cfg.simulation_time * Day
          /\ last # <<>> => last[1].a <= cfg.simulation_time * Day
          /\ status = "finished" =>
                \A e \in queue : e.time > cfg.simulation_time * Day)

\* C21 as claimed: a put that would take the level of a container above its
\* capacity fails: the process that issued it (produce_drug or receive_drug)
\* has raised, and the request is not left waiting in the put queue of the
\* container.
C21_PutOverflowFails ==
    \A i \in Seen("put") :
        last[i].a + last[i].qty > cfg.capacity[last[i].fac]
        => /\ procs[last[i].proc].pc = "failed"
           /\ last[i].proc \notin Waiting(put_queue[last[i].fac])

\* the processes of one kind created so far
ProcsOf(kind) == {p \in 1..Len(procs) : procs[p].kind = kind}

\* C22 as claimed, for a configuration that sets target_enrollment: the
\* trial site never has more patients than the target, no more
\* patient_demand processes than the target are ever created, and once the
\* target is reached patient_enrollment has ended and waits for no further
\* arrival.
C22_EnrollmentStopsAtTarget ==
    /\ patients <= cfg.target_enrollment
    /\ Cardinality(ProcsOf("patient_demand")) <= cfg.target_enrollment
    /\ patients >= cfg.target_enrollment
       => \A p \in ProcsOf("patient_enrollment") :
             /\ procs[p].pc = "done"
             /\ ~\E e \in queue : e.kind = "Timeout" /\ e.proc = p

\* C23: the inventory_log of every facility starts with the sample of the
\* constructor, (0, initial level); a step leaves the samples it finds as
\* they are and in place, and every sample it appends carries the time of
\* the step and the level the container has when it is appended (no step
\* changes a level after logging it); so the times of a log never decrease.
C23_LogAppendOnly ==
    /\ [](\A f \in Facilities :
            /\ inventory_log[f] # <<>>
            /\ inventory_log[f][1] = <<0, cfg.initial_inventory[f]>>
            /\ \A k \in 1..(Len(inventory_log[f]) - 1) :
                  inventory_log[f][k][1] <= inventory_log[f][k + 1][1])
    /\ [][\A f \in Facilities :
            /\ Len(inventory_log'[f]) >= Len(inventory_log[f])
            /\ SubSeq(inventory_log'[f], 1, Len(inventory_log[f])) = inventory_log[f]
            /\ \A k \in (Len(inventory_log[f]) + 1)..Len(inventory_log'[f]) :
                  inventory_log'[f][k] = <<now', level'[f]>>]_vars

\* a log holds three samples, the last two taken at different times with
\* different levels
C23_Witness ==
    \E f \in Facilities :
        /\ Len(inventory_log[f]) >= 3
        /\ LET n == Len(inventory_log[f])
           IN  /\ inventory_log[f][n - 1][1] < inventory_log[f][n][1]
               /\ inventory_log[f][n - 1][2] # inventory_log[f][n][2]

\* the processes that are suspended: started, neither returned nor raised
Suspended == {p \in 1..Len(procs) : procs[p].pc \notin {"start", "done", "failed"}}

\* C24: while the run is going the until event is in the queue, at
\* simulation_time; the run eventually stops, finished or with a stockout;
\* it finishes with the clock at simulation_time; and once it has stopped
\* nothing is resumed any more: the processes, the queue, the clock, the
\* levels and the logs stay as they are.
C24_RunTerminates ==
    /\ [](status = "running"
          => \E e \in queue : e.kind = "Until" /\ e.time = cfg.simulation_time * Day)
    /\ <>(status \in {"finished", "stockout"})
    /\ [](status = "finished" => now = cfg.simulation_time * Day)
    /\ [][status # "running"
          => UNCHANGED <<procs, queue, now, level, inventory_log, on_order, patients>>]_vars

\* the run has stopped at simulation_time while a controller, a patient and
\* the enrollment are suspended on timeouts that are still in the queue
C24_Witness ==
    /\ status = "finished"
    /\ \A kind \in {"run", "patient_demand", "patient_enrollment"} :
          \E p \in Suspended :
              /\ procs[p].kind = kind
              /\ \E e \in queue : e.kind = "Timeout" /\ e.proc = p

RECURSIVE Sum(_, _)
Sum(f, S) == IF S = {} THEN 0
             ELSE LET x == CHOOSE y \in S : TRUE IN f[x] + Sum(f, S \ {x})

\* the processes that take units out of a container to carry them to
\* another: a dispatch, and the initial central-to-regional distribution
Carriers == ProcsOf("dispatch_drug") \cup ProcsOf("distribute_drug_storage_to_storage")

\* the carrier a receive_drug process delivers for (a dispatch delivers
\* through its transport_drug)
CarrierOf(r) ==
    LET parent == procs[r].parent
    IN  IF parent # 0 /\ procs[parent].kind = "transport_drug"
        THEN procs[parent].parent ELSE parent

\* the put of receive_drug process r has been granted
PutGranted(r) ==
    /\ procs[r].pc \in {"put", "done"}
    /\ r \notin Waiting(put_queue[procs[r].fac])

\* carrier p has been granted its get and its units have not been put into
\* the destination yet
Carrying(p) ==
    /\ procs[p].pc \notin {"start", "done"}
    /\ p \notin Waiting(get_queue[procs[p].fac])
    /\ ~\E r \in ProcsOf("receive_drug") : CarrierOf(r) = p /\ PutGranted(r)

InTransit == Sum([p \in Carriers |-> procs[p].quantity], {p \in Carriers : Carrying(p)})

\* what has been put into the manufacturer's container, and what the
\* patients have taken out of the trial site's
Produced == level["manufacturer"] - cfg.initial_inventory["manufacturer"]
            + withdrawn["manufacturer"]

Consumed == withdrawn["trial_site"]

\* C25 as claimed: the levels of the four containers and the quantities in
\* transit add up to the initial inventories plus what was produced minus
\* what the patients consumed.
C25_UnitsConserved ==
    Sum(level, Facilities) + InTransit
        = Sum(cfg.initial_inventory, Facilities) + Produced - Consumed

\* the checks passed in the most recent step: dispatch_drug or a patient's
\* dose found level >= quantity
ChecksPassed == Seen("dispatch") \cup Seen("dose")

\* the get of the process of observation i was granted in the most recent
\* step, and the process is not waiting on the container
GrantedInStep(i) ==
    /\ \E j \in Seen("get_granted") : /\ j > i
                                      /\ last[j].proc = last[i].proc
                                      /\ last[j].fac = last[i].fac
                                      /\ last[j].qty = last[i].qty
    /\ last[i].proc \notin Waiting(get_queue[last[i].fac])

\* C26 as claimed: whenever dispatch_drug or a patient's dose passes its
\* check, its get is granted in that same step and the process does not
\* wait on the container, whatever else is queued there.
C26_GrantedAtOnce == \A i \in ChecksPassed : GrantedInStep(i)

\* What the program does where C26 fails: the check and the get are one
\* step, the get being issued on the level and the queue that the check saw
\* (level >= quantity).  With
\* nothing waiting on the container the get is granted in that step, taking
\* the level down by the quantity, and the process does not wait.  With an
\* older get waiting the new one joins the queue behind it and is not
\* granted in that step.  Nothing else draws on the trial site, so a dose
\* is always granted at once.
C26_CheckAndGetOneStep ==
    \A i \in ChecksPassed :
        LET o == last[i]
        IN  /\ o.a >= o.qty
            /\ i < Len(last)
            /\ last[i + 1] = Obs("get", o.fac, o.proc, o.qty, o.a, o.b)
            /\ o.b = 0 => /\ GrantedInStep(i)
                          /\ last[i + 2] = Obs("get_granted", o.fac, o.proc, o.qty,
                                               o.a, o.a - o.qty)
            /\ o.b > 0 => /\ o.proc \in Waiting(get_queue[o.fac])
                          /\ ~\E j \in Seen("get_granted") : last[j].proc = o.proc
            /\ o.op = "dose" => o.b = 0

\* a dispatch passes its check while the get of the initial
\* central-to-regional distribution is waiting on the same container
C26_Witness ==
    \E i \in Seen("dispatch") :
        /\ last[i].b > 0
        /\ last[i].a >= last[i].qty
        /\ \E p \in Waiting(get_queue[last[i].fac]) :
              procs[p].kind = "distribute_drug_storage_to_storage"

\* the orders of the controller of facility f that are outstanding: its
\* place_order processes that have not run to their end
Outstanding(f) == {p \in ProcsOf("place_order") : procs[p].fac = f /\ procs[p].pc # "done"}

\* the run process of the controller of facility f
ControllerOf(f) == CHOOSE p \in ProcsOf("run") : procs[p].fac = f

\* C27: a controller has at most one order outstanding; while it has one it
\* waits for that order alone (it is suspended on the place_order process,
\* with no timeout of its own in the queue); and a step in which a
\* controller evaluates or places an order starts with no order of that
\* controller outstanding.
C27_OneOrderOutstanding ==
    /\ [](\A f \in Controlled :
            /\ Cardinality(Outstanding(f)) <= 1
            /\ Outstanding(f) # {}
               => /\ procs[ControllerOf(f)].pc = "wait_order"
                  /\ \A p \in Outstanding(f) : procs[p].parent = ControllerOf(f)
                  /\ ~\E e \in queue : e.proc = ControllerOf(f) /\ e.kind = "Timeout")
    /\ [][\A i \in 1..Len(last') :
            last'[i].op \in {"evaluate", "place_order"} => Outstanding(last'[i].fac) = {}]_vars

\* an order is outstanding past the controller's next poll time: placed at
\* least a day ago, it is in its dispatch, the units are in transport, and
\* the controller is still waiting for it
C27_Witness ==
    \E f \in Controlled : \E p \in Outstanding(f) :
        /\ procs[p].pc = "dispatch"
        /\ \E t \in ProcsOf("transport_drug") : procs[t].peer = f /\ procs[t].pc = "transit"
        /\ procs[ControllerOf(f)].pc = "wait_order"
        /\ now >= (poll_interval + 1) * Day

====
